---- MODULE Spec2Model ----
(***************************************************************************)
(* Model of csv_tool.py: the split engine split_csv_logic (encoding        *)
(* detection, line counting, chunk planning, the strict and the tolerant   *)
(* split pass) and the run handler on_run_click that starts it on a        *)
(* worker thread.                                                          *)
(*                                                                         *)
(* The source file is a header row 0 followed by the data rows 1..nrows.   *)
(* One row (multi) may hold a quoted line break, so that it spans two raw  *)
(* text lines; one row (badRow) may hold a byte sequence that the detected *)
(* encoding cannot decode: it comes out altered under errors='ignore',     *)
(* and strict decoding raises when the buffered text layer decodes the     *)
(* block that holds it, which is while the reader fetches row failRow, the *)
(* bad row or one up to MaxReadAhead rows before it.                       *)
(***************************************************************************)
EXTENDS Integers, Sequences, FiniteSets, TLC

\* ---------------------------------------------------------------- bounds
MaxRows == 4
MaxParts == 3
MaxFaults == 2
MaxReadAhead == 1
MaxPlanRows == 24
MaxPlanParts == 8
MaxWorkers == 2
MaxLogView == 2

\* ------------------------------------------------------------- sentinels
NoRow == 0 - 1
NoCount == 0 - 1
NoChunk == 0 - 1
NoFile == [rows |-> <<>>, pass |-> "none"]
NoHeader == [id |-> 0 - 1, lossy |-> FALSE]

VARIABLES
    nrows,        \* source: index of the last row (0 = header only, -1 = empty file)
    multi,        \* source: the row that spans two text lines, or NoRow
    badRow,       \* source: the row holding an undecodable byte, or NoRow
    failRow,      \* source: the row whose fetch raises under strict decoding, or NoRow
    num_parts,    \* argument num_parts
    pc,           \* position of split_csv_logic
    encoding,     \* local encoding
    total_lines,  \* local total_lines
    chunk_size,   \* local chunk_size
    mode,         \* open_func_args of the running pass: "strict" or "tolerant"
    header,       \* local header of process_splitting
    i,            \* loop variable i of process_splitting
    cursor,       \* next source row the csv reader yields
    taken,        \* rows already drawn from current_chunk_iter
    first_row,    \* local first_row
    files,        \* output directory: part index -> rows written and writing pass
    log,          \* calls of log_callback, in order
    busy,         \* calls of progress_callback, in order
    faults,       \* output I/O failures the environment has raised so far
    btn_run_disabled, \* btn_run.disabled
    progress_visible, \* progress_bar.visible
    workers,      \* position of each worker thread started by on_run_click
    log_view      \* log_view.controls (message kinds, the latest MaxLogView)

engineVars == <<nrows, multi, badRow, failRow, num_parts, pc, encoding, total_lines,
                chunk_size, mode, header, i, cursor, taken, first_row, files,
                log, busy, faults>>
guiVars == <<btn_run_disabled, progress_visible, workers, log_view>>
vars == <<nrows, multi, badRow, failRow, num_parts, pc, encoding, total_lines,
          chunk_size, mode, header, i, cursor, taken, first_row, files,
          log, busy, faults, btn_run_disabled, progress_visible, workers,
          log_view>>

\* --------------------------------------------------------------- helpers
Ev(k, n, c) == [kind |-> k, n |-> n, cause |-> c]

encodings_to_try == <<"utf-8-sig", "gbk", "gb2312", "utf-8", "cp936", "big5">>

\* The sets of candidate encodings that decode the probe window cleanly.
ProbeCases == {{"utf-8-sig", "gbk", "gb2312", "utf-8", "cp936", "big5"},
               {"big5"}, {}}

RECURSIVE FirstClean(_, _)
FirstClean(k, ok) ==
    IF k > Len(encodings_to_try) THEN "gbk"
    ELSE IF encodings_to_try[k] \in ok THEN encodings_to_try[k]
    ELSE FirstClean(k + 1, ok)

detect_encoding(ok) == FirstClean(1, ok)

\* Raw text lines of the source, as `sum(1 for _ in f)` counts them.
CountLines == (nrows + 1) + (IF multi # NoRow THEN 1 ELSE 0)

\* The row the csv reader yields for source row r under a pass.
Decode(r, m) == [id |-> r, lossy |-> (m = "tolerant" /\ r = badRow)]

\* Strict decoding raises while row failRow is fetched.
DecodeFails(r, m) == m = "strict" /\ failRow # NoRow /\ r = failRow

CeilFloor(d, n) == d \div n
\* math.ceil(data_rows / num_parts)
Ceil(d, n) == IF d % n = 0 THEN d \div n ELSE (d \div n) + 1

TooFewStrict(d) == d < 0
\* data_rows <= 0
TooFew(d) == d <= 0

ChunkDoneLate(t, c) == t > c
\* islice(reader, chunk_size) is exhausted after chunk_size rows
ChunkDone(t, c) == t >= c

HeaderDropped(rows, h) == rows
\* writer.writerow(header)
PutHeader(rows, h) == Append(rows, h)

EarlyCountOff(k) == k + 1
\* the count in the early-stop message
EarlyCount(k) == k

FirstIndexResume(k) == k
\* range(num_parts) starts at 0 in every call of process_splitting
FirstIndex(k) == 0

CanFault == faults < MaxFaults

\* ------------------------------------------------------------------ Init
GuiIdle ==
    /\ btn_run_disabled = FALSE
    /\ progress_visible = FALSE
    /\ workers = [w \in 1..MaxWorkers |-> "none"]
    /\ log_view = <<"welcome">>

EngineLocals ==
    /\ encoding = "none"
    /\ total_lines = NoCount
    /\ chunk_size = NoChunk
    /\ mode = "strict"
    /\ header = NoHeader
    /\ i = 0
    /\ cursor = 0
    /\ taken = 0
    /\ first_row = NoHeader
    /\ files = [k \in 1..MaxParts |-> NoFile]
    /\ log = <<>>
    /\ busy = <<>>
    /\ faults = 0

Init ==
    /\ nrows \in -1..MaxRows
    /\ multi \in {NoRow} \cup 0..nrows
    /\ badRow \in {NoRow} \cup 0..nrows
    /\ failRow \in IF badRow = NoRow THEN {NoRow}
                   ELSE {r \in 0..badRow : badRow - r <= MaxReadAhead}
    /\ num_parts \in 1..MaxParts
    /\ pc = "start"
    /\ EngineLocals
    /\ GuiIdle

\* ------------------------------------------------- split_csv_logic steps
\* lines 35-36
Start ==
    /\ pc = "start"
    /\ log' = Append(log, Ev("start", 0, ""))
    /\ busy' = Append(busy, TRUE)
    /\ pc' = "mkdir"
    /\ UNCHANGED <<nrows, multi, badRow, failRow, num_parts, encoding, total_lines,
                   chunk_size, mode, header, i, cursor, taken, first_row,
                   files, faults>>
    /\ UNCHANGED guiVars

\* lines 38-40
MakeDir ==
    /\ pc = "mkdir"
    /\ \E exists \in BOOLEAN :
         log' = IF exists THEN log ELSE Append(log, Ev("mkdir", 0, ""))
    /\ pc' = "detect"
    /\ UNCHANGED <<nrows, multi, badRow, failRow, num_parts, encoding, total_lines,
                   chunk_size, mode, header, i, cursor, taken, first_row,
                   files, busy, faults>>
    /\ UNCHANGED guiVars

\* line 39 raising (permission denied), caught at lines 108-109
MakeDirFail ==
    /\ pc = "mkdir"
    /\ CanFault
    /\ faults' = faults + 1
    /\ log' = Append(log, Ev("error", 0, "io"))
    /\ pc' = "finally"
    /\ UNCHANGED <<nrows, multi, badRow, failRow, num_parts, encoding, total_lines,
                   chunk_size, mode, header, i, cursor, taken, first_row,
                   files, busy>>
    /\ UNCHANGED guiVars

\* lines 45-47; a bad byte inside the probe window rejects every candidate,
\* and an empty file decodes cleanly under each of them
Detect ==
    /\ pc = "detect"
    /\ \E ok \in ProbeCases :
         /\ (ok = {}) => failRow = 0
         /\ (nrows < 0) => encodings_to_try[1] \in ok
         /\ encoding' = detect_encoding(ok)
    /\ log' = log \o <<Ev("detecting", 0, ""), Ev("detected", 0, "")>>
    /\ pc' = "count"
    /\ UNCHANGED <<nrows, multi, badRow, failRow, num_parts, total_lines,
                   chunk_size, mode, header, i, cursor, taken, first_row,
                   files, busy, faults>>
    /\ UNCHANGED guiVars

\* line 46 with a source that cannot be opened: open() raises OSError, which
\* detect_encoding does not catch; caught at lines 108-109
DetectFail ==
    /\ pc = "detect"
    /\ log' = log \o <<Ev("detecting", 0, ""), Ev("error", 0, "io")>>
    /\ pc' = "finally"
    /\ UNCHANGED <<nrows, multi, badRow, failRow, num_parts, encoding, total_lines,
                   chunk_size, mode, header, i, cursor, taken, first_row,
                   files, busy, faults>>
    /\ UNCHANGED guiVars

\* lines 50-58
Count ==
    /\ pc = "count"
    /\ log' = IF badRow # NoRow
              THEN log \o <<Ev("counting", 0, ""), Ev("warn_count", 0, "")>>
              ELSE Append(log, Ev("counting", 0, ""))
    /\ total_lines' = CountLines
    /\ pc' = "plan"
    /\ UNCHANGED <<nrows, multi, badRow, failRow, num_parts, encoding,
                   chunk_size, mode, header, i, cursor, taken, first_row,
                   files, busy, faults>>
    /\ UNCHANGED guiVars

\* lines 60-67 and the call at line 101
Plan ==
    /\ pc = "plan"
    /\ LET data_rows == total_lines - 1 IN
         IF TooFew(data_rows)
         THEN /\ log' = Append(log, Ev("error", 0, "empty"))
              /\ busy' = Append(busy, FALSE)
              /\ pc' = "finally"
              /\ UNCHANGED chunk_size
         ELSE /\ chunk_size' = Ceil(data_rows, num_parts)
              /\ log' = Append(log, Ev("plan", data_rows, ""))
              /\ pc' = "open_in"
              /\ UNCHANGED busy
    /\ UNCHANGED <<nrows, multi, badRow, failRow, num_parts, encoding, total_lines,
                   mode, header, i, cursor, taken, first_row, files, faults>>
    /\ UNCHANGED guiVars

\* ------------------------------------------------ process_splitting steps
\* An exception leaving process_splitting: the strict call is inside the
\* try of lines 100-104 (any Exception: warning, then the tolerant call);
\* the tolerant call is only inside the outer try (lines 108-109).
SplitRaises(cause) ==
    IF mode = "strict"
    THEN /\ log' = Append(log, Ev("warn_split", 0, cause))
         /\ mode' = "tolerant"
         /\ header' = NoHeader
         /\ first_row' = NoHeader
         /\ cursor' = 0
         /\ taken' = 0
         /\ pc' = "open_in"
    ELSE /\ log' = Append(log, Ev("error", 0, cause))
         /\ pc' = "finally"
         /\ UNCHANGED <<mode, header, first_row, cursor, taken>>

\* lines 72-77
ReadHeader ==
    /\ pc = "open_in"
    /\ IF DecodeFails(0, mode)
       THEN SplitRaises("decode") /\ UNCHANGED i
       ELSE IF nrows < 0
       THEN /\ pc' = "finish"
            /\ UNCHANGED <<log, mode, header, first_row, cursor, taken, i>>
       ELSE /\ header' = Decode(0, mode)
            /\ cursor' = 1
            /\ i' = FirstIndex(i)
            /\ pc' = "loop"
            /\ UNCHANGED <<log, mode, first_row, taken>>
    /\ UNCHANGED <<nrows, multi, badRow, failRow, num_parts, encoding, total_lines,
                   chunk_size, files, busy, faults>>
    /\ UNCHANGED guiVars

\* lines 79-85
NextChunk ==
    /\ pc = "loop"
    /\ IF i >= num_parts
       THEN /\ pc' = "finish"
            /\ UNCHANGED <<log, mode, header, first_row, cursor, taken>>
       ELSE IF ChunkDone(0, chunk_size) \/ cursor > nrows
       THEN /\ log' = Append(log, Ev("early", EarlyCount(i), ""))
            /\ pc' = "finish"
            /\ UNCHANGED <<mode, header, first_row, cursor, taken>>
       ELSE IF DecodeFails(cursor, mode)
       THEN SplitRaises("decode")
       ELSE /\ first_row' = Decode(cursor, mode)
            /\ cursor' = cursor + 1
            /\ taken' = 1
            /\ pc' = "open_out"
            /\ UNCHANGED <<log, mode, header>>
    /\ UNCHANGED <<nrows, multi, badRow, failRow, num_parts, encoding, total_lines,
                   chunk_size, i, files, busy, faults>>
    /\ UNCHANGED guiVars

\* line 90: open(save_path, 'w') creates or truncates the part
OpenOut ==
    /\ pc = "open_out"
    /\ files' = [files EXCEPT ![i + 1] = [rows |-> <<>>, pass |-> mode]]
    /\ pc' = "write_header"
    /\ UNCHANGED <<nrows, multi, badRow, failRow, num_parts, encoding, total_lines,
                   chunk_size, mode, header, i, cursor, taken, first_row,
                   log, busy, faults>>
    /\ UNCHANGED guiVars

\* line 90 raising OSError (permission denied, disk full)
OpenOutFail ==
    /\ pc = "open_out"
    /\ CanFault
    /\ faults' = faults + 1
    /\ SplitRaises("io")
    /\ UNCHANGED <<nrows, multi, badRow, failRow, num_parts, encoding, total_lines,
                   chunk_size, i, files, busy>>
    /\ UNCHANGED guiVars

\* line 92
WriteHeader ==
    /\ pc = "write_header"
    /\ files' = [files EXCEPT ![i + 1].rows = PutHeader(@, header)]
    /\ pc' = "write_first"
    /\ UNCHANGED <<nrows, multi, badRow, failRow, num_parts, encoding, total_lines,
                   chunk_size, mode, header, i, cursor, taken, first_row,
                   log, busy, faults>>
    /\ UNCHANGED guiVars

WriteFirstForgotten ==
    /\ pc = "write_first"
    /\ pc' = "write_rest"
    /\ UNCHANGED <<nrows, multi, badRow, failRow, num_parts, encoding, total_lines,
                   chunk_size, mode, header, i, cursor, taken, first_row,
                   files, log, busy, faults>>
    /\ UNCHANGED guiVars

\* line 93
WriteFirst ==
    /\ pc = "write_first"
    /\ files' = [files EXCEPT ![i + 1].rows = Append(@, first_row)]
    /\ pc' = "write_rest"
    /\ UNCHANGED <<nrows, multi, badRow, failRow, num_parts, encoding, total_lines,
                   chunk_size, mode, header, i, cursor, taken, first_row,
                   log, busy, faults>>
    /\ UNCHANGED guiVars

\* lines 94-97: one row of writer.writerows(current_chunk_iter), or, with the
\* chunk exhausted, the close of the part and its log line
WriteRest ==
    /\ pc = "write_rest"
    /\ IF ChunkDone(taken, chunk_size) \/ cursor > nrows
       THEN /\ log' = Append(log, Ev("part", i + 1, ""))
            /\ i' = i + 1
            /\ pc' = "loop"
            /\ UNCHANGED <<mode, header, first_row, cursor, taken, files>>
       ELSE IF DecodeFails(cursor, mode)
       THEN SplitRaises("decode") /\ UNCHANGED <<i, files>>
       ELSE /\ files' = [files EXCEPT ![i + 1].rows = Append(@, Decode(cursor, mode))]
            /\ cursor' = cursor + 1
            /\ taken' = taken + 1
            /\ UNCHANGED <<log, mode, header, first_row, i, pc>>
    /\ UNCHANGED <<nrows, multi, badRow, failRow, num_parts, encoding, total_lines,
                   chunk_size, busy, faults>>
    /\ UNCHANGED guiVars

\* lines 92-94 raising OSError while the part is open
WriteFail ==
    /\ pc \in {"write_header", "write_first", "write_rest"}
    /\ CanFault
    /\ faults' = faults + 1
    /\ SplitRaises("io")
    /\ UNCHANGED <<nrows, multi, badRow, failRow, num_parts, encoding, total_lines,
                   chunk_size, i, files, busy>>
    /\ UNCHANGED guiVars

\* line 106
Finish ==
    /\ pc = "finish"
    /\ log' = Append(log, Ev("success", 0, ""))
    /\ pc' = "finally"
    /\ UNCHANGED <<nrows, multi, badRow, failRow, num_parts, encoding, total_lines,
                   chunk_size, mode, header, i, cursor, taken, first_row,
                   files, busy, faults>>
    /\ UNCHANGED guiVars

\* lines 110-111
Finally ==
    /\ pc = "finally"
    /\ busy' = Append(busy, FALSE)
    /\ pc' = "done"
    /\ UNCHANGED <<nrows, multi, badRow, failRow, num_parts, encoding, total_lines,
                   chunk_size, mode, header, i, cursor, taken, first_row,
                   files, log, faults>>
    /\ UNCHANGED guiVars

Next ==
    \/ Start
    \/ MakeDir
    \/ MakeDirFail
    \/ Detect
    \/ DetectFail
    \/ Count
    \/ Plan
    \/ ReadHeader
    \/ NextChunk
    \/ OpenOut
    \/ OpenOutFail
    \/ WriteHeader
    \/ WriteFirst
    \/ WriteRest
    \/ WriteFail
    \/ Finish
    \/ Finally

Spec == Init /\ [][Next]_vars

\* ------------------------------------------------------ the chunk planner
\* The planner on its own: every pair (data_rows, num_parts) of positive
\* integers within the bounds, from the state split_csv_logic is in when it
\* starts counting.
InitPlan ==
    /\ nrows \in 1..MaxPlanRows
    /\ multi = NoRow
    /\ badRow = NoRow
    /\ failRow = NoRow
    /\ num_parts \in 1..MaxPlanParts
    /\ pc = "count"
    /\ encoding = "utf-8-sig"
    /\ total_lines = NoCount
    /\ chunk_size = NoChunk
    /\ mode = "strict"
    /\ header = NoHeader
    /\ i = 0
    /\ cursor = 0
    /\ taken = 0
    /\ first_row = NoHeader
    /\ files = [k \in 1..MaxParts |-> NoFile]
    /\ log = <<Ev("start", 0, ""), Ev("detecting", 0, ""), Ev("detected", 0, "")>>
    /\ busy = <<TRUE>>
    /\ faults = 0
    /\ GuiIdle

NextPlan ==
    \/ Count
    \/ Plan

SpecPlan == InitPlan /\ [][NextPlan]_vars

\* ------------------------------------------------- the run button (GUI)
\* append_log, lines 307-343: log_view.controls.append (the window keeps the
\* latest MaxLogView entries)
append_log(view, m) ==
    LET s == Append(view, m)
    IN  IF Len(s) > MaxLogView THEN SubSeq(s, Len(s) - MaxLogView + 1, Len(s)) ELSE s

FilePaths == {"", "a.csv"}
NumStrs == {"x", "0", "3"}
\* num_str.isdigit() and int(num_str) > 0
ValidNum(n) == n = "3"

FreeSlots == {w \in 1..MaxWorkers : workers[w] = "none"}

\* on_run_click, lines 355-375; a disabled button delivers no click
RunClick ==
    /\ ~btn_run_disabled
    /\ \E fp \in FilePaths, n \in NumStrs :
         IF fp = "" \/ ~ValidNum(n)
         THEN /\ log_view' = append_log(log_view, "error")
              /\ UNCHANGED workers
         ELSE /\ FreeSlots # {}
              /\ log_view' = <<"prepare">>
              /\ LET w == CHOOSE x \in FreeSlots : \A y \in FreeSlots : x <= y
                 IN  workers' = [workers EXCEPT ![w] = "l35"]
    /\ UNCHANGED <<btn_run_disabled, progress_visible>>
    /\ UNCHANGED engineVars

\* worker, line 35: log_callback = append_log
WorkerLogStart(w) ==
    /\ workers[w] = "l35"
    /\ log_view' = append_log(log_view, "start")
    /\ workers' = [workers EXCEPT ![w] = "l36"]
    /\ UNCHANGED <<btn_run_disabled, progress_visible>>
    /\ UNCHANGED engineVars

\* worker, line 36: progress_callback = set_loading (lines 348-352)
WorkerBusy(w) ==
    /\ workers[w] = "l36"
    /\ progress_visible' = TRUE
    /\ btn_run_disabled' = TRUE
    /\ workers' = [workers EXCEPT ![w] = "body"]
    /\ UNCHANGED log_view
    /\ UNCHANGED engineVars

\* worker, lines 38-64 on a source without data rows: error line,
\* set_loading(False), return
WorkerAbort(w) ==
    /\ workers[w] = "body"
    /\ log_view' = append_log(log_view, "error")
    /\ progress_visible' = FALSE
    /\ btn_run_disabled' = FALSE
    /\ workers' = [workers EXCEPT ![w] = "finally_idle"]
    /\ UNCHANGED engineVars

\* worker, lines 38-109 otherwise: ends with the success or the error line
WorkerBody(w) ==
    /\ workers[w] = "body"
    /\ \E m \in {"success", "error"} : log_view' = append_log(log_view, m)
    /\ workers' = [workers EXCEPT ![w] = "finally"]
    /\ UNCHANGED <<btn_run_disabled, progress_visible>>
    /\ UNCHANGED engineVars

\* worker, lines 110-111
WorkerFinally(w) ==
    /\ workers[w] \in {"finally", "finally_idle"}
    /\ progress_visible' = FALSE
    /\ btn_run_disabled' = FALSE
    /\ workers' = [workers EXCEPT ![w] = "done"]
    /\ UNCHANGED log_view
    /\ UNCHANGED engineVars

InitGUI ==
    /\ nrows = 0
    /\ multi = NoRow
    /\ badRow = NoRow
    /\ failRow = NoRow
    /\ num_parts = 1
    /\ pc = "start"
    /\ EngineLocals
    /\ GuiIdle

NextGUI ==
    \/ RunClick
    \/ \E w \in 1..MaxWorkers : WorkerLogStart(w)
    \/ \E w \in 1..MaxWorkers : WorkerBusy(w)
    \/ \E w \in 1..MaxWorkers : WorkerAbort(w)
    \/ \E w \in 1..MaxWorkers : WorkerBody(w)
    \/ \E w \in 1..MaxWorkers : WorkerFinally(w)

SpecGUI == InitGUI /\ [][NextGUI]_vars

\* ================================================================ claims
HasKind(kind) == \E j \in 1..Len(log) : log[j].kind = kind
CountKind(kind) == Cardinality({j \in 1..Len(log) : log[j].kind = kind})
HasCause(kind, cause) ==
    \E j \in 1..Len(log) : log[j].kind = kind /\ log[j].cause = cause
LastKind == IF Len(log) = 0 THEN "none" ELSE log[Len(log)].kind
Existing == {k \in 1..MaxParts : files[k] # NoFile}
Produced == Cardinality(Existing)
BodyRows(k) == SubSeq(files[k].rows, 2, Len(files[k].rows))
DataRows == total_lines - 1
Completed == pc = "done" /\ HasKind("success")
Min(a, b) == IF a < b THEN a ELSE b

RECURSIVE ConcatFrom(_)
ConcatFrom(k) ==
    IF k > MaxParts THEN <<>>
    ELSE IF files[k] = NoFile THEN <<>>
    ELSE BodyRows(k) \o ConcatFrom(k + 1)

\* C1: in every finished run the busy callback was called exactly twice,
\* with true and then with false.
C1_BusyTwice == pc = "done" => busy = <<TRUE, FALSE>>

\* C2: when the split completes, the body rows of the parts 1, 2, ...
\* concatenated are the source's data rows 1..nrows in order, as the pass
\* that wrote them decodes them, and part k holds the chunk_size rows that
\* follow those of part k-1.
C2_RoundTrip ==
    Completed =>
      /\ Existing = 1..Produced
      /\ ConcatFrom(1) = [r \in 1..nrows |-> Decode(r, mode)]
      /\ \A k \in Existing :
           BodyRows(k) =
             [j \in 1..Min(chunk_size, nrows - (k - 1) * chunk_size) |->
                Decode((k - 1) * chunk_size + j, mode)]

C2_Witness ==
    /\ Completed
    /\ Produced >= 2
    /\ nrows >= 3

\* C3 as stated: chunk_size is the ceiling of data_rows / num_parts,
\* chunk_size * num_parts >= data_rows and, for num_parts > 1,
\* chunk_size * (num_parts - 1) < data_rows.
C3_Original ==
    chunk_size # NoChunk =>
      /\ chunk_size * num_parts >= DataRows
      /\ (chunk_size - 1) * num_parts < DataRows
      /\ (num_parts > 1 => chunk_size * (num_parts - 1) < DataRows)

\* C3 amended: chunk_size is the ceiling of data_rows / num_parts, that is
\* chunk_size * num_parts >= data_rows and
\* (chunk_size - 1) * num_parts < data_rows.
C3_Ceiling ==
    chunk_size # NoChunk =>
      /\ chunk_size * num_parts >= DataRows
      /\ (chunk_size - 1) * num_parts < DataRows

C3_Witness ==
    /\ chunk_size # NoChunk
    /\ num_parts > 1
    /\ DataRows % num_parts # 0
    /\ DataRows > num_parts

\* C4: once the counted data rows are <= 0, no part file is ever opened or
\* written, the success event is never emitted, and the run ends with
\* exactly one error event.
C4_EmptyAborts ==
    (total_lines # NoCount /\ DataRows <= 0) =>
      /\ Existing = {}
      /\ ~HasKind("success")
      /\ pc \in {"plan", "finally", "done"}
      /\ (pc \in {"finally", "done"} => CountKind("error") = 1)

C4_Witness ==
    /\ pc = "done"
    /\ total_lines = 1

\* C5 as stated: a completed split of fewer rows than num_parts * chunk_size
\* produced fewer than num_parts files and logged the early-stop event with
\* the number produced.
C5_Original ==
    (Completed /\ nrows < num_parts * chunk_size) =>
      /\ Produced < num_parts
      /\ \E j \in 1..Len(log) : log[j].kind = "early" /\ log[j].n = Produced

\* C5 amended: a completed split of at most (num_parts - 1) * chunk_size
\* rows produced fewer than num_parts files and logged the early-stop event
\* with the number produced.
C5_FewerParts ==
    (Completed /\ nrows <= (num_parts - 1) * chunk_size) =>
      /\ Produced < num_parts
      /\ \E j \in 1..Len(log) : log[j].kind = "early" /\ log[j].n = Produced

C5_Witness ==
    /\ Completed
    /\ nrows >= 1
    /\ nrows <= (num_parts - 1) * chunk_size
    /\ Produced >= 2

\* C6: every part that holds a row holds the header, as its writing pass
\* decodes it, as its first row and only data rows after it; a part is
\* without rows only between its open and the header write, or after an
\* output failure.
C6_HeaderFirst ==
    \A k \in Existing :
      LET r == files[k].rows IN
        /\ Len(r) > 0 =>
             /\ r[1] = Decode(0, files[k].pass)
             /\ \A j \in 2..Len(r) : r[j].id >= 1
        /\ Len(r) = 0 => ((pc = "write_header" /\ k = i + 1) \/ faults > 0)
        /\ (Completed => Len(r) >= 2)

C6_Witness ==
    /\ files[1].pass = "tolerant"
    /\ Len(files[1].rows) >= 2
    /\ files[2].pass = "strict"
    /\ Len(files[2].rows) >= 2

\* C7: in a completed split the parts are 1..P, each but the last holds
\* exactly chunk_size data rows and the last holds between 1 and chunk_size.
C7_PartSizes ==
    Completed =>
      /\ Existing = 1..Produced
      /\ \A k \in Existing :
           LET n == Len(files[k].rows) - 1 IN
             IF k < Produced THEN n = chunk_size
             ELSE n >= 1 /\ n <= chunk_size

C7_Witness ==
    /\ Completed
    /\ Produced >= 2
    /\ Len(files[Produced].rows) - 1 < chunk_size

\* C8: a run in which an output I/O failure occurred ends with exactly one
\* error event, and that event is the last one.
C8_IoFailureStops ==
    (pc = "done" /\ (HasCause("warn_split", "io") \/ HasCause("error", "io"))) =>
      /\ CountKind("error") = 1
      /\ LastKind = "error"

\* C9: after a decode failure of the strict pass there is exactly one
\* warning and the tolerant pass is the only other pass; when the run then
\* completes, every part on disk was written by the tolerant pass, part 1
\* starts at the first data row, and the last event is the success event.
C9_RetryFromStart ==
    HasCause("warn_split", "decode") =>
      /\ CountKind("warn_split") = 1
      /\ mode = "tolerant"
      /\ Completed =>
           /\ \A k \in Existing : files[k].pass = "tolerant"
           /\ LastKind = "success"
           /\ (nrows >= 1 =>
                 /\ 1 \in Existing
                 /\ BodyRows(1) # <<>>
                 /\ BodyRows(1)[1] = Decode(1, "tolerant"))

C9_Witness ==
    /\ Completed
    /\ HasCause("warn_split", "decode")
    /\ failRow > chunk_size
    /\ Produced >= 2

\* C10: at most one worker has been started and has not yet set the busy
\* flag back to false.
C10_OneWorker ==
    Cardinality({w \in 1..MaxWorkers :
                   workers[w] \in {"l35", "l36", "body", "finally"}}) <= 1

====
